---- MODULE Spec2Model ----
(***************************************************************************)
(* ZeroTier::RingBuffer<T> (node/RingBuffer.hpp): a fixed-capacity         *)
(* circular buffer with index bookkeeping (produce/consume/reset), bulk    *)
(* copies (write/read), single-element insertion with eviction (push) and  *)
(* statistics over the held elements.                                      *)
(*                                                                         *)
(* The object is the record [size, begin, end, wrap, buf, fault]; every    *)
(* member function is an operator from the object (and its arguments) to   *)
(* the object afterwards and the value returned.  buf is indexed from 0,   *)
(* as the storage is.  fault records undefined behaviour (a modulo by      *)
(* zero or a store outside the storage).                                   *)
(***************************************************************************)
EXTENDS Integers, Sequences, FiniteSets, TLC

VARIABLES size, begin, end, wrap, buf, fault,
          op, n_in, data, ret, dest, pre, prev, hist, fresh, abs, absOut

vars == <<size, begin, end, wrap, buf, fault,
          op, n_in, data, ret, dest, pre, prev, hist, fresh, abs, absOut>>

(* ------------------------------ bounds --------------------------------- *)

\* largest capacity a buffer is constructed with
MaxCap == 2
\* element values are 0..MaxVal
MaxVal == 1
\* longest source array handed to write
MaxLen == 2
\* largest count handed to produce, consume and read
MaxN == 3
\* longest run of pushes on a fresh buffer that hist records
MaxPush == 5
\* largest capacity of the buffers of SpecStats
StatCap == 3
\* width of size_t in the model, in bits
SIZE_BITS == 10

Values == 0..MaxVal

RECURSIVE SeqsOfLen(_)
SeqsOfLen(k) ==
  IF k = 0 THEN {<<>>}
  ELSE {Append(q, v) : q \in SeqsOfLen(k - 1), v \in Values}

Sources == UNION {SeqsOfLen(k) : k \in 0..MaxLen}

(* --------------------------- size_t arithmetic ------------------------- *)

SIZE_MOD == 2 ^ SIZE_BITS

UAdd(a, b) == (a + b) % SIZE_MOD

USub(a, b) == (a - b) % SIZE_MOD

Min(a, b) == IF b < a THEN b ELSE a

(* ------------------------------ the object ----------------------------- *)

RingBuffer(sz) ==
  [size |-> sz, begin |-> 0, end |-> 0, wrap |-> FALSE,
   buf |-> [i \in 0..(sz - 1) |-> 0], fault |-> FALSE]

self ==
  [size |-> size, begin |-> begin, end |-> end, wrap |-> wrap,
   buf |-> buf, fault |-> fault]

\* memcpy(b + at, src + from, len * sizeof(T)); src is a sequence whose
\* element 0 is src[1]
memcpy(b, at, src, from, len) ==
  [i \in DOMAIN b |->
     IF i >= at /\ i < at + len THEN src[from + (i - at) + 1] ELSE b[i]]

count_missing_branch(s) ==
  IF s.end = s.begin THEN (IF s.wrap THEN s.size ELSE 0)
  ELSE USub(UAdd(s.size, s.end), s.begin)

count(s) ==
  IF s.end = s.begin THEN (IF s.wrap THEN s.size ELSE 0)
  ELSE IF s.end > s.begin THEN USub(s.end, s.begin)
  ELSE USub(UAdd(s.size, s.end), s.begin)

getFree(s) == USub(s.size, count(s))

produce_no_wrap(s, n0) ==
  LET n == Min(n0, getFree(s)) IN
  IF n = 0 THEN [s |-> s, ret |-> n]
  ELSE LET end1 == UAdd(s.end, n)
       IN [s |-> [s EXCEPT !.end = end1,
                           !.wrap = IF s.begin = end1 THEN TRUE ELSE s.wrap],
           ret |-> n]

produce_no_flag(s, n0) ==
  LET n == Min(n0, getFree(s)) IN
  IF n = 0 THEN [s |-> s, ret |-> n]
  ELSE [s |-> [s EXCEPT !.end = UAdd(s.end, n) % s.size], ret |-> n]

produce(s, n0) ==
  LET n == Min(n0, getFree(s)) IN
  IF n = 0 THEN [s |-> s, ret |-> n]
  ELSE LET first_chunk == Min(n, USub(s.size, s.end))
           end1 == UAdd(s.end, first_chunk) % s.size
           end2 == IF first_chunk < n
                   THEN UAdd(end1, USub(n, first_chunk)) % s.size
                   ELSE end1
       IN [s |-> [s EXCEPT !.end = end2,
                           !.wrap = IF s.begin = end2 THEN TRUE ELSE s.wrap],
           ret |-> n]

consume_keeps_wrap(s, n0) ==
  LET n == Min(n0, count(s)) IN
  IF n = 0 THEN [s |-> s, ret |-> n]
  ELSE [s |-> [s EXCEPT !.begin = UAdd(s.begin, n) % s.size], ret |-> n]

consume(s, n0) ==
  LET n == Min(n0, count(s)) IN
  IF n = 0 THEN [s |-> s, ret |-> n]
  ELSE LET first_chunk == Min(n, USub(s.size, s.begin))
           begin1 == UAdd(s.begin, first_chunk) % s.size
           begin2 == IF first_chunk < n
                     THEN UAdd(begin1, USub(n, first_chunk)) % s.size
                     ELSE begin1
       IN [s |-> [s EXCEPT !.begin = begin2, !.wrap = FALSE], ret |-> n]

reset_to_origin(s) == [s EXCEPT !.begin = 0, !.end = 0, !.wrap = FALSE]

reset(s) == consume(s, count(s)).s

write_no_clamp(s, src, n0) ==
  LET n == n0 IN
  IF n = 0 THEN [s |-> s, ret |-> n]
  ELSE LET first_chunk == Min(n, USub(s.size, s.end))
           buf1 == memcpy(s.buf, s.end, src, 0, first_chunk)
           end1 == UAdd(s.end, first_chunk) % s.size
           second_chunk == USub(n, first_chunk)
           buf2 == IF first_chunk < n
                   THEN memcpy(buf1, end1, src, first_chunk, second_chunk)
                   ELSE buf1
           end2 == IF first_chunk < n
                   THEN UAdd(end1, second_chunk) % s.size
                   ELSE end1
       IN [s |-> [s EXCEPT !.buf = buf2, !.end = end2,
                           !.wrap = IF s.begin = end2 THEN TRUE ELSE s.wrap],
           ret |-> n]

write_second_from_start(s, src, n0) ==
  LET n == Min(n0, getFree(s)) IN
  IF n = 0 THEN [s |-> s, ret |-> n]
  ELSE LET first_chunk == Min(n, USub(s.size, s.end))
           buf1 == memcpy(s.buf, s.end, src, 0, first_chunk)
           end1 == UAdd(s.end, first_chunk) % s.size
           second_chunk == USub(n, first_chunk)
           buf2 == IF first_chunk < n
                   THEN memcpy(buf1, end1, src, 0, second_chunk)
                   ELSE buf1
           end2 == IF first_chunk < n
                   THEN UAdd(end1, second_chunk) % s.size
                   ELSE end1
       IN [s |-> [s EXCEPT !.buf = buf2, !.end = end2,
                           !.wrap = IF s.begin = end2 THEN TRUE ELSE s.wrap],
           ret |-> n]

write(s, src, n0) ==
  LET n == Min(n0, getFree(s)) IN
  IF n = 0 THEN [s |-> s, ret |-> n]
  ELSE LET first_chunk == Min(n, USub(s.size, s.end))
           buf1 == memcpy(s.buf, s.end, src, 0, first_chunk)
           end1 == UAdd(s.end, first_chunk) % s.size
           second_chunk == USub(n, first_chunk)
           buf2 == IF first_chunk < n
                   THEN memcpy(buf1, end1, src, first_chunk, second_chunk)
                   ELSE buf1
           end2 == IF first_chunk < n
                   THEN UAdd(end1, second_chunk) % s.size
                   ELSE end1
       IN [s |-> [s EXCEPT !.buf = buf2, !.end = end2,
                           !.wrap = IF s.begin = end2 THEN TRUE ELSE s.wrap],
           ret |-> n]

push_store_after_advance(s, value) ==
  LET s1 == IF count(s) = s.size THEN consume(s, 1).s ELSE s IN
  IF s.size = 0 THEN [s EXCEPT !.fault = TRUE]
  ELSE LET end1 == UAdd(s1.end, 1) % s1.size
       IN [s1 EXCEPT !.buf = [s1.buf EXCEPT ![end1] = value],
                     !.end = end1,
                     !.wrap = IF s1.begin = end1 THEN TRUE ELSE s1.wrap]

push_no_evict(s, value) ==
  IF s.size = 0 THEN [s EXCEPT !.fault = TRUE]
  ELSE LET end1 == UAdd(s.end, 1) % s.size
       IN [s EXCEPT !.buf = [s.buf EXCEPT ![s.end] = value],
                    !.end = end1,
                    !.wrap = IF s.begin = end1 THEN TRUE ELSE s.wrap]

\* with size == 0 the store *(buf + end) lies outside the storage and
\* "% size" is a modulo by zero: undefined behaviour, recorded in fault
push(s, value) ==
  LET s1 == IF count(s) = s.size THEN consume(s, 1).s ELSE s IN
  IF s.size = 0 THEN [s EXCEPT !.fault = TRUE]
  ELSE LET first_chunk == Min(1, USub(s1.size, s1.end))
           end1 == UAdd(s1.end, first_chunk) % s1.size
       IN [s1 EXCEPT !.buf = [s1.buf EXCEPT ![s1.end] = value],
                     !.end = end1,
                     !.wrap = IF s1.begin = end1 THEN TRUE ELSE s1.wrap]

\* what a call of push can leave behind.  With size == 0 its behaviour is
\* undefined (fault): the build traps on "% size", or it goes on with the
\* remainder taken as end, finds begin == end and sets wrap
pushOutcomes(s, value) ==
  IF s.size = 0
  THEN {[s EXCEPT !.fault = TRUE], [s EXCEPT !.fault = TRUE, !.wrap = TRUE]}
  ELSE {push(s, value)}

read_no_second_copy(s, n0) ==
  LET n == Min(n0, count(s)) IN
  IF n = 0 THEN [s |-> s, ret |-> n, dest |-> <<>>]
  ELSE LET first_chunk == Min(n, USub(s.size, s.begin))
       IN [s |-> consume(s, n).s, ret |-> n,
           dest |-> [i \in 1..n |->
                       IF i <= first_chunk
                       THEN s.buf[s.begin + (i - 1)]
                       ELSE 0]]

\* dest is the part of the destination array that read stores into:
\* memcpy(dest, buf + begin, ...) then memcpy(dest + first_chunk, buf + begin, ...)
read(s, n0) ==
  LET n == Min(n0, count(s)) IN
  IF n = 0 THEN [s |-> s, ret |-> n, dest |-> <<>>]
  ELSE LET first_chunk == Min(n, USub(s.size, s.begin))
           begin1 == UAdd(s.begin, first_chunk) % s.size
           second_chunk == USub(n, first_chunk)
           begin2 == IF first_chunk < n
                     THEN UAdd(begin1, second_chunk) % s.size
                     ELSE begin1
       IN [s |-> [s EXCEPT !.begin = begin2, !.wrap = FALSE],
           ret |-> n,
           dest |-> [i \in 1..n |->
                       IF i <= first_chunk
                       THEN s.buf[s.begin + (i - 1)]
                       ELSE s.buf[begin1 + (i - first_chunk) - 1]]]

(* ------------------------------ statistics ----------------------------- *)

iteratorAt_no_step(s, curr_cnt, k) ==
  IF k = 0 THEN s.begin
  ELSE UAdd(s.begin, k * s.size) % curr_cnt

\* the value of "iterator" after k rounds of the loop of mean()
RECURSIVE iteratorAt(_, _, _)
iteratorAt(s, curr_cnt, k) ==
  IF k = 0 THEN s.begin
  ELSE USub(UAdd(iteratorAt(s, curr_cnt, k - 1), s.size), 1) % curr_cnt

\* the slots the loop of mean(), zeroCount() and countValue() reads, in the
\* order it reads them
visited(s) == [k \in 1..count(s) |-> iteratorAt(s, count(s), k)]

\* "subtotal" after k rounds of the loop
RECURSIVE subtotalAt(_, _, _)
subtotalAt(s, curr_cnt, k) ==
  IF k = 0 THEN 0
  ELSE subtotalAt(s, curr_cnt, k - 1) + s.buf[iteratorAt(s, curr_cnt, k)]

\* the float returned is the fraction num / den (the element values of the
\* model and their sums are integers a float holds exactly)
mean(s) ==
  LET curr_cnt == count(s) IN
  IF curr_cnt # 0
  THEN [num |-> subtotalAt(s, curr_cnt, curr_cnt), den |-> curr_cnt]
  ELSE [num |-> 0, den |-> 1]

\* mean(n): the loop runs n = min(n, size) rounds with the iterator reduced
\* modulo curr_cnt; a round with curr_cnt == 0 is a modulo by zero (fault)
meanN(s, n0) ==
  LET n == IF n0 < s.size THEN n0 ELSE s.size
      curr_cnt == count(s)
  IN IF n > 0 /\ curr_cnt = 0
     THEN [num |-> 0, den |-> 1, fault |-> TRUE]
     ELSE IF curr_cnt # 0
     THEN [num |-> subtotalAt(s, curr_cnt, n), den |-> curr_cnt,
           fault |-> FALSE]
     ELSE [num |-> 0, den |-> 1, fault |-> FALSE]

\* "cnt" of countValue after k rounds of its loop
RECURSIVE matchesAt(_, _, _, _)
matchesAt(s, curr_cnt, value, k) ==
  IF k = 0 THEN 0
  ELSE matchesAt(s, curr_cnt, value, k - 1)
       + (IF s.buf[iteratorAt(s, curr_cnt, k)] = value THEN 1 ELSE 0)

zeroCount(s) == matchesAt(s, count(s), 0, count(s))

countValue(s, value) == matchesAt(s, count(s), value, count(s))

\* "sum_of_squared_deviations" after k rounds of the loop of variance(),
\* for an integer T: deviation is the float buf[i] - cached_mean =
\* (buf[i] * den - num) / den, and the sum is brought back to T (truncated)
\* at every +=
RECURSIVE sumSqAt(_, _, _)
sumSqAt(s, m, k) ==
  IF k = 0 THEN 0
  ELSE LET a == s.buf[k - 1] * m.den - m.num
       IN (sumSqAt(s, m, k - 1) * m.den * m.den + a * a) \div (m.den * m.den)

\* the float returned is num / den; den == 0 (size == 1) is the float
\* division by zero
variance(s) ==
  LET cached_mean == mean(s)
      curr_cnt == count(s)
  IN IF s.size # 0
     THEN [num |-> sumSqAt(s, cached_mean, curr_cnt),
           den |-> USub(s.size, 1)]
     ELSE [num |-> 0, den |-> 1]

get_most_recent(s) == s.buf[s.end]

(* ----------------------- the buffer and its caller --------------------- *)

\* op, n_in, data, ret, dest: the last call, its arguments and results
\* pre:   the object before the last call
\* prev:  what the call before the last one was: "write_to_empty" (a write
\*        to an empty buffer), "reset_of_empty", "reset_of_held" (a reset
\*        of a buffer holding elements), or "other"
\* hist:  the values pushed so far, while fresh (nothing but push has been
\*        called since construction, at most MaxPush times)
\* abs:   the bounded queue the calls so far describe, oldest first
\* absOut: what the last call, if a read, takes off that queue

\* the bounded queue: push drops the head when the queue is at capacity,
\* write appends the prefix that fits, read and consume take a prefix
AbsPush(q, v, cap) ==
  IF cap = 0 THEN q
  ELSE IF Len(q) = cap THEN Append(Tail(q), v)
  ELSE Append(q, v)

AbsWrite(q, src, cap) == q \o SubSeq(src, 1, Min(Len(src), cap - Len(q)))

AbsTaken(q, n) == SubSeq(q, 1, Min(n, Len(q)))

AbsLeft(q, n) == SubSeq(q, Min(n, Len(q)) + 1, Len(q))

\* produce makes the m slots from end on held, with whatever they store
Exposed(s, m) == [i \in 1..m |-> s.buf[(s.end + (i - 1)) % s.size]]

Start(capacities) ==
  /\ size \in capacities
  /\ begin = 0
  /\ end = 0
  /\ wrap = FALSE
  /\ buf = [i \in 0..(size - 1) |-> 0]
  /\ fault = FALSE
  /\ op = "new"
  /\ n_in = 0
  /\ data = <<>>
  /\ ret = 0
  /\ dest = <<>>
  /\ pre = RingBuffer(size)
  /\ prev = "other"
  /\ hist = <<>>
  /\ fresh = TRUE
  /\ abs = <<>>
  /\ absOut = <<>>

Init == Start(1..MaxCap)

Becomes(s) ==
  /\ size' = s.size
  /\ begin' = s.begin
  /\ end' = s.end
  /\ wrap' = s.wrap
  /\ buf' = s.buf
  /\ fault' = s.fault

Called(name, n) ==
  /\ ~fault
  /\ op' = name
  /\ n_in' = n
  /\ pre' = self
  /\ prev' = IF op = "write" /\ count(pre) = 0 THEN "write_to_empty"
              ELSE IF op = "reset" /\ count(pre) = 0 THEN "reset_of_empty"
              ELSE IF op = "reset" THEN "reset_of_held"
              ELSE "other"

NotAPush ==
  /\ hist' = <<>>
  /\ fresh' = FALSE

Produce ==
  \E n \in 0..MaxN :
    LET r == produce(self, n) IN
    /\ Called("produce", n)
    /\ Becomes(r.s)
    /\ abs' = abs \o Exposed(self, r.ret)
    /\ absOut' = <<>>
    /\ ret' = r.ret
    /\ data' = <<>>
    /\ dest' = <<>>
    /\ NotAPush

Consume ==
  \E n \in 0..MaxN :
    LET r == consume(self, n) IN
    /\ Called("consume", n)
    /\ Becomes(r.s)
    /\ abs' = AbsLeft(abs, n)
    /\ absOut' = <<>>
    /\ ret' = r.ret
    /\ data' = <<>>
    /\ dest' = <<>>
    /\ NotAPush

Reset ==
  /\ Called("reset", 0)
  /\ Becomes(reset(self))
  /\ abs' = <<>>
  /\ absOut' = <<>>
  /\ ret' = 0
  /\ data' = <<>>
  /\ dest' = <<>>
  /\ NotAPush

Write ==
  \E src \in Sources :
    LET r == write(self, src, Len(src)) IN
    /\ Called("write", Len(src))
    /\ Becomes(r.s)
    /\ abs' = AbsWrite(abs, src, size)
    /\ absOut' = <<>>
    /\ ret' = r.ret
    /\ data' = src
    /\ dest' = <<>>
    /\ NotAPush

\* the caller's source array is still there when a read directly follows
\* the write
Read ==
  \E n \in 0..MaxN :
    LET r == read(self, n) IN
    /\ Called("read", n)
    /\ Becomes(r.s)
    /\ abs' = AbsLeft(abs, n)
    /\ absOut' = AbsTaken(abs, n)
    /\ ret' = r.ret
    /\ data' = IF op = "write" THEN data ELSE <<>>
    /\ dest' = r.dest
    /\ NotAPush

Push ==
  \E value \in Values : \E after \in pushOutcomes(self, value) :
    /\ Called("push", 1)
    /\ Becomes(after)
    /\ abs' = AbsPush(abs, value, size)
    /\ absOut' = <<>>
    /\ ret' = 0
    /\ data' = <<value>>
    /\ dest' = <<>>
    /\ IF fresh /\ Len(hist) < MaxPush
       THEN hist' = Append(hist, value) /\ fresh' = TRUE
       ELSE NotAPush

Next == Produce \/ Consume \/ Reset \/ Write \/ Read \/ Push

Spec == Init /\ [][Next]_vars

\* the calls that move elements: every call but produce
NextFifo == Consume \/ Reset \/ Write \/ Read \/ Push

SpecFifo == Init /\ [][NextFifo]_vars

\* a buffer constructed with capacity 0
InitZero == Start({0})

SpecZero == InitZero /\ [][Next]_vars

\* buffers of up to StatCap elements, filled by push and drained by consume
InitStats == Start(1..StatCap)

NextStats == Push \/ Consume

SpecStats == InitStats /\ [][NextStats]_vars

(* ------------------------------ properties ----------------------------- *)

\* the held elements, oldest first: slot (begin + i) mod size for i < count
Logical(s) ==
  [i \in 1..count(s) |-> s.buf[(s.begin + (i - 1)) % s.size]]

Last(q, k) == SubSeq(q, Len(q) - k + 1, Len(q))

RECURSIVE SumSeq(_)
SumSeq(q) == IF q = <<>> THEN 0 ELSE Head(q) + SumSeq(Tail(q))

\* C1: pushing size + k values (k >= 0) one by one onto a freshly
\* constructed buffer leaves count() == size and the held elements equal to
\* the last size pushed values, oldest first.
PushEvictionFIFO ==
  (fresh /\ Len(hist) >= size) =>
    /\ count(self) = size
    /\ Logical(self) = Last(hist, size)

PushEvictionFIFO_Witness ==
  /\ fresh
  /\ size >= 2
  /\ Len(hist) >= size + 2
  /\ hist[1] # hist[Len(hist)]
  /\ hist[Len(hist) - 1] # hist[Len(hist)]

\* C2: on an empty buffer with size >= n, wherever begin sits, write(data, n)
\* returns n, and read(dest, n) directly after it returns n, leaves dest
\* equal to data and the buffer empty.
WriteReadRoundTrip ==
  /\ (op = "write" /\ count(pre) = 0 /\ n_in <= size) =>
       /\ ret = n_in
       /\ count(self) = n_in
  /\ (op = "read" /\ prev = "write_to_empty"
        /\ Len(data) <= size /\ n_in = Len(data)) =>
       /\ ret = n_in
       /\ dest = data
       /\ count(self) = 0

WriteReadRoundTrip_Witness ==
  /\ op = "read" /\ prev = "write_to_empty"
  /\ n_in = Len(data)
  /\ Len(data) >= 2
  /\ pre.begin > 0
  /\ pre.begin + Len(data) > size
  /\ data[1] # data[2]
  /\ dest = data

\* C3: in every reachable state of a buffer with size >= 1,
\* 0 <= count() <= size and count() + getFree() == size.
CountWithinCapacity ==
  /\ count(self) >= 0
  /\ count(self) <= size
  /\ count(self) + getFree(self) = size

CountWithinCapacity_Witness ==
  /\ op = "consume"
  /\ count(pre) > 0
  /\ n_in > count(pre)
  /\ pre.end < pre.begin
  /\ count(self) = 0
  /\ getFree(self) = size

\* C4: in every reachable state of a buffer with size >= 1,
\* 0 <= begin < size and 0 <= end < size.
IndicesInStorage ==
  /\ begin \in 0..(size - 1)
  /\ end \in 0..(size - 1)

IndicesInStorage_Witness ==
  /\ op = "produce"
  /\ ret >= 1
  /\ pre.end + ret >= size
  /\ end < pre.end
  /\ begin > 0

\* C5: write(source, n) returns m = min(n, getFree()), appends source[0..m-1]
\* in order after the newest element, raises count() by m and leaves begin
\* and the elements held before unchanged.
WriteNeverEvicts ==
  op = "write" =>
    LET m == Min(n_in, getFree(pre)) IN
    /\ ret = m
    /\ Logical(self) = Logical(pre) \o SubSeq(data, 1, m)
    /\ count(self) = count(pre) + m
    /\ begin = pre.begin
    /\ \A i \in 0..(count(pre) - 1) :
         buf[(pre.begin + i) % size] = pre.buf[(pre.begin + i) % size]

WriteNeverEvicts_Witness ==
  /\ op = "write"
  /\ count(pre) > 0
  /\ ret >= 1
  /\ n_in > ret
  /\ pre.begin > 0
  /\ data[1] # pre.buf[pre.begin]
  /\ data[1] # data[2]

\* C6: read(destination, n) returns m = min(n, count()), stores the m oldest
\* held elements, oldest first, into destination[0..m-1], lowers count() by
\* m and leaves end and the remaining elements unchanged.
ReadTakesOldest ==
  op = "read" =>
    LET m == Min(n_in, count(pre)) IN
    /\ ret = m
    /\ dest = SubSeq(Logical(pre), 1, m)
    /\ count(self) = count(pre) - m
    /\ end = pre.end
    /\ Logical(self) = SubSeq(Logical(pre), m + 1, count(pre))

ReadTakesOldest_Witness ==
  /\ op = "read"
  /\ ret >= 2
  /\ pre.begin + ret > size
  /\ dest[1] # dest[2]

\* C7: produce(n) returns m = min(n, getFree()), sets end to
\* (end + m) mod size, leaves begin and the storage unchanged, raises
\* count() by m (end never passes begin), and afterwards wrap is true
\* exactly when count() == size.
ProduceAdvancesEnd ==
  op = "produce" =>
    LET m == Min(n_in, getFree(pre)) IN
    /\ ret = m
    /\ end = (pre.end + m) % size
    /\ begin = pre.begin
    /\ buf = pre.buf
    /\ count(self) = count(pre) + m
    /\ wrap <=> (count(self) = size)

ProduceAdvancesEnd_Witness ==
  /\ op = "produce"
  /\ ret > 0
  /\ n_in > ret
  /\ end < pre.end
  /\ wrap
  /\ ~pre.wrap

\* C8: consume(n) returns m = min(n, count()), sets begin to
\* (begin + m) mod size, leaves end and the storage unchanged, and for
\* every n > 0 wrap is false afterwards.
ConsumeAdvancesBegin ==
  op = "consume" =>
    LET m == Min(n_in, count(pre)) IN
    /\ ret = m
    /\ begin = (pre.begin + m) % size
    /\ end = pre.end
    /\ buf = pre.buf
    /\ (n_in > 0 => ~wrap)

ConsumeAdvancesBegin_Witness ==
  /\ op = "consume"
  /\ pre.wrap
  /\ ret > 0
  /\ begin < pre.begin
  /\ begin # end

\* C9: reset() leaves count() == 0 with size, end and every stored value
\* unchanged, from an empty, partly filled or full buffer; a push(v)
\* directly after it makes count() == 1 with v the only held element.
ResetThenPush ==
  /\ op = "reset" =>
       /\ count(self) = 0
       /\ size = pre.size
       /\ end = pre.end
       /\ buf = pre.buf
  /\ (op = "push" /\ prev \in {"reset_of_empty", "reset_of_held"}) =>
       /\ count(self) = 1
       /\ Logical(self) = data

ResetThenPush_Witness ==
  /\ op = "push" /\ prev = "reset_of_held"
  /\ pre.begin > 0
  /\ data = <<1>>
  /\ count(self) = 1

\* C10: in every reachable state mean() equals the sum of the held elements
\* (slot (begin + i) mod size for i < count(), each read once) divided by
\* count(), and 0 when count() == 0.
MeanOfOccupied ==
  LET m == mean(self)
      c == count(self)
  IN IF c = 0 THEN m.num = 0
     ELSE m.num * c = SumSeq(Logical(self)) * m.den

\* the sum of the last w elements of q
SumLast(q, w) == SumSeq(Last(q, w))

\* C11: in every reachable state with count() > 0 and for every n >= 1,
\* mean(n) equals the sum of the w = min(n, count()) most recently inserted
\* held elements divided by w.
MeanNOfWindow ==
  count(self) > 0 =>
    \A n \in 1..MaxN :
      LET w == Min(n, count(self))
          m == meanN(self, n)
      IN /\ ~m.fault
         /\ m.num * w = SumLast(Logical(self), w) * m.den

\* the number of elements of q equal to v
Occurrences(q, v) == Cardinality({i \in 1..Len(q) : q[i] = v})

\* C12: in every reachable state zeroCount() is the number of held elements
\* equal to 0 and countValue(v) the number of held elements equal to v.
CountsOfOccupied ==
  /\ zeroCount(self) = Occurrences(Logical(self), 0)
  /\ \A v \in Values : countValue(self, v) = Occurrences(Logical(self), v)

\* the sum over the elements of q of the squared deviation from num / den,
\* as a fraction over den * den, accumulated as variance() accumulates it
RECURSIVE SumSqDev(_, _)
SumSqDev(q, m) ==
  IF q = <<>> THEN 0
  ELSE LET a == q[Len(q)] * m.den - m.num
       IN (SumSqDev(SubSeq(q, 1, Len(q) - 1), m) * m.den * m.den + a * a)
            \div (m.den * m.den)

\* C13: in every reachable state with count() >= 2, variance() equals the
\* sum over the held elements, each read at slot (begin + i) mod size, of
\* the squared deviation from mean(), divided by count() - 1.
VarianceOfOccupied ==
  count(self) >= 2 =>
    LET v == variance(self) IN
    /\ v.den # 0
    /\ v.num * (count(self) - 1) = SumSqDev(Logical(self), mean(self)) * v.den

\* C14: for every size >= 1, in every reachable state with count() <= 1,
\* variance() returns 0 and divides by nothing that is zero.
VarianceOfFewIsZero ==
  count(self) <= 1 =>
    LET v == variance(self) IN
    /\ v.den # 0
    /\ v.num = 0

\* C15: in every reachable state with count() == 0, mean(n) returns 0 for
\* every n >= 0 and takes no modulo by zero.
MeanNOfEmptyIsZero ==
  count(self) = 0 =>
    \A n \in 0..MaxN :
      LET m == meanN(self, n) IN
      /\ ~m.fault
      /\ m.num = 0

\* C16: a buffer constructed with size 0 has count() == 0 and
\* getFree() == 0 after any sequence of calls, and no call takes a modulo
\* by zero or stores outside the storage.
ZeroCapacityInert ==
  size = 0 =>
    /\ count(self) = 0
    /\ getFree(self) = 0
    /\ ~fault

\* C17: after any sequence of calls ending in push(v), get_most_recent()
\* returns v, whether or not the buffer is full.
MostRecentIsLastPushed ==
  op = "push" => get_most_recent(self) = data[1]

\* C18: under any interleaving of push, write, read, consume and reset on a
\* buffer with size >= 1, the held elements (slot (begin + i) mod size for
\* i < count()) are the bounded queue abs, and every read returns what it
\* takes off that queue.
FifoRefinement ==
  /\ Logical(self) = abs
  /\ op = "read" => dest = absOut

FifoRefinement_Witness ==
  /\ op = "read"
  /\ ret >= 1
  /\ pre.wrap
  /\ pre.begin > 0
  /\ Len(abs) >= 1
  /\ dest[1] # abs[1]
  /\ dest = absOut

\* C19: in every state reachable by any sequence of calls, wrap is true only
\* if begin == end, and wrap is true exactly when count() == size and
\* size >= 1.
WrapExactlyWhenFull ==
  /\ wrap => begin = end
  /\ wrap <=> (count(self) = size /\ size >= 1)

\* C20: whenever the buffer is full (count() == size >= 1), wherever begin
\* sits, the traversal of mean(), zeroCount() and countValue(v) reads every
\* slot exactly once, and these queries equal the mean and the counts of
\* the held elements.
FullTraversalExact ==
  (count(self) = size /\ size >= 1) =>
    /\ \A i \in 0..(size - 1) :
         Cardinality({k \in 1..size : visited(self)[k] = i}) = 1
    /\ mean(self).num * size = SumSeq(Logical(self)) * mean(self).den
    /\ zeroCount(self) = Occurrences(Logical(self), 0)
    /\ \A v \in Values : countValue(self, v) = Occurrences(Logical(self), v)

FullTraversalExact_Witness ==
  /\ count(self) = size
  /\ size >= 2
  /\ begin > 0
  /\ buf[0] # buf[1]
  /\ op = "push"
  /\ mean(self).num = SumSeq(Logical(self))

====
